---- MODULE Spec2Model ----
(***************************************************************************)
(* Model of the ComfyUI Claude node pack: src/__init__.py (the host        *)
(* registration mapping) and src/nodes/nodes.py (four node classes, each   *)
(* with a declared input schema and an execute method that delegates to    *)
(* describe_image / run_prompt of the sibling module .ai).                 *)
(*                                                                         *)
(* Python str values are TLA+ strings; f-string interpolation of a str is  *)
(* concatenation (\o).  An image tensor is an opaque identity.             *)
(***************************************************************************)
EXTENDS Integers, Sequences, FiniteSets, TLC

VARIABLES pc, cur, full_prompt, call, ncalls, reply, outcome, nexec, remembered

vars == <<pc, cur, full_prompt, call, ncalls, reply, outcome, nexec, remembered>>

(***************************************************************************)
(* Bounds of the model.                                                    *)
(***************************************************************************)
\* Node executions the host runs in one behaviour.
MaxExecs == 3

(***************************************************************************)
(* Values the host can feed into the inputs.                               *)
(***************************************************************************)
Images == {"img_a", "img_b"}

ApiKeys == {"sk-ant-1"}

SystemPrompts == {"", "Be terse."}

UserPrompts == {"", "Summarize:"}

UserTexts == {"", "a"}

UserPrefixes == {"", "X"}

\* What the helper can answer, and how it can fail.
Responses == {"", " a cat.\n"}

Errors == {"AuthenticationError", "RateLimitError"}

(***************************************************************************)
(* Module constants of nodes.py.                                           *)
(***************************************************************************)
DESCRIBE_IMAGE_PROMPT == "Describe this image in detail."

\* The backslash-newline inside the literal is a line continuation: the two
\* source lines form one line of text.
COMBINE_TEXTS_PROMPT == "Combine the following two texts into one coherent prompt without redundancies."

\* The default of ClassifyImage.classification_prompt.  The literal holds
\* two arrows and one long dash, written here as "->" and "--", and its
\* backquotes are written as apostrophes.
CLASSIFICATION_PROMPT_DEFAULT == "You are a visual classification model. I will provide you with a full-body fashion image containing one or more garments. Your task is to analyze the entire image and classify each distinct visible garment using **only** the following predefined list of classes: dress, jacket, jumpsuit, sweatshirt, coat, cardigan, skort, bikini, leggings, underwear, swimsuit, bodysuit, vest, poncho, saree, kurta, sweater, sleepwear, tank-top, shirt, pants, shorts, thshirt, skirt, topwear, jeans, tshirt, blazer, bra ### Instructions: - Identify the **most prominent garments** visible in the image - Select the **best-fitting label** from the list above for each garment - **MAXIMUM TWO CLASSES ONLY** - return at most 2 garment classifications - If there is only one visible garment, return just the **single class name** - If there are multiple garments, return **only the two most prominent ones** in a **comma-separated format** (e.g., 'shirt, pants') - **Only** use the class names from the list above. Do **not** create new categories or output any additional text - Your output must be **clean and machine-readable**, as it will be passed directly to another model (Moondream) for bounding box extraction ### Output format: - One garment -> 'tshirt' - Two garments -> 'tshirt, jeans' - **NEVER return more than two classes** Again, **do not include explanations, descriptions, confidence scores, or formatting**--just the class name(s) as a single plain string with maximum two classes."

CLASSIFY_MODEL_DEFAULT == "claude-3-7-sonnet-20250219"

\* The choice list exported by .ai.
models == {"claude-3-7-sonnet-20250219", "claude-3-5-haiku-20241022"}

(***************************************************************************)
(* Input declarations.  required_kw records the keyword as written:       *)
(* "False" for required=False, "omitted" when the keyword is absent.       *)
(***************************************************************************)
ImageInput == [kind |-> "IMAGE", required_kw |-> "omitted", has_default |-> FALSE, default |-> ""]

ChoiceInput(has_default, default) ==
    [kind |-> "CHOICE", required_kw |-> "omitted", has_default |-> has_default, default |-> default]

StringInput(required_kw, has_default, default) ==
    [kind |-> "STRING", required_kw |-> required_kw, has_default |-> has_default, default |-> default]

\* An input is optional only when its declaration passes required=False.
IsRequired(decl) == decl.required_kw # "False"

DescribeImageInputs ==
    [image         |-> ImageInput,
     model         |-> ChoiceInput(FALSE, ""),
     api_key       |-> StringInput("omitted", FALSE, ""),
     system_prompt |-> StringInput("False", FALSE, ""),
     prompt        |-> StringInput("False", TRUE, DESCRIBE_IMAGE_PROMPT)]

\* Variant: the prompt of CombineTexts defaults to COMBINE_TEXTS_PROMPT.
CombineTextsInputs_own_default ==
    [text_1        |-> StringInput("omitted", FALSE, ""),
     text_1_prefix |-> StringInput("omitted", TRUE, "1"),
     text_2        |-> StringInput("omitted", FALSE, ""),
     text_2_prefix |-> StringInput("omitted", TRUE, "2"),
     model         |-> ChoiceInput(FALSE, ""),
     api_key       |-> StringInput("omitted", FALSE, ""),
     system_prompt |-> StringInput("False", FALSE, ""),
     prompt        |-> StringInput("False", TRUE, COMBINE_TEXTS_PROMPT)]

CombineTextsInputs ==
    [text_1        |-> StringInput("omitted", FALSE, ""),
     text_1_prefix |-> StringInput("omitted", TRUE, "1"),
     text_2        |-> StringInput("omitted", FALSE, ""),
     text_2_prefix |-> StringInput("omitted", TRUE, "2"),
     model         |-> ChoiceInput(FALSE, ""),
     api_key       |-> StringInput("omitted", FALSE, ""),
     system_prompt |-> StringInput("False", FALSE, ""),
     prompt        |-> StringInput("False", TRUE, DESCRIBE_IMAGE_PROMPT)]

TransformTextInputs ==
    [text          |-> StringInput("omitted", FALSE, ""),
     model         |-> ChoiceInput(FALSE, ""),
     api_key       |-> StringInput("omitted", FALSE, ""),
     system_prompt |-> StringInput("False", FALSE, ""),
     prompt        |-> StringInput("False", TRUE, DESCRIBE_IMAGE_PROMPT)]

ClassifyImageInputs ==
    [image                 |-> ImageInput,
     classification_prompt |-> StringInput("omitted", TRUE, CLASSIFICATION_PROMPT_DEFAULT),
     model                 |-> ChoiceInput(TRUE, CLASSIFY_MODEL_DEFAULT),
     api_key               |-> StringInput("omitted", FALSE, ""),
     system_prompt         |-> StringInput("False", FALSE, "")]

\* The node classes nodes.py defines.
NodeClasses == {"DescribeImage", "CombineTexts", "TransformText", "ClassifyImage"}

Schema(node) ==
    CASE node = "DescribeImage" -> DescribeImageInputs
      [] node = "CombineTexts"  -> CombineTextsInputs
      [] node = "TransformText" -> TransformTextInputs
      [] node = "ClassifyImage" -> ClassifyImageInputs

\* The StringOutput declarations of each class, in order.
Outputs(node) ==
    CASE node = "DescribeImage" -> <<"description">>
      [] node = "CombineTexts"  -> <<"combined_texts">>
      [] node = "TransformText" -> <<"transformed_text">>
      [] node = "ClassifyImage" -> <<"classification">>

(***************************************************************************)
(* src/__init__.py                                                         *)
(***************************************************************************)
\* Variant: the last entry registers the class of the first.
NODE_CLASS_MAPPINGS_duplicate ==
    ("Describe Image" :> "DescribeImage") @@
    ("Combine Texts"  :> "CombineTexts")  @@
    ("Transform Text" :> "TransformText") @@
    ("Classify Image" :> "DescribeImage")

NODE_CLASS_MAPPINGS ==
    ("Describe Image" :> "DescribeImage") @@
    ("Combine Texts"  :> "CombineTexts")  @@
    ("Transform Text" :> "TransformText") @@
    ("Classify Image" :> "ClassifyImage")

(***************************************************************************)
(* The values the host resolves for an input: what the user typed or       *)
(* connected, or the declared default of the widget.                       *)
(***************************************************************************)
UserValues(field) ==
    CASE field = "image" -> Images
      [] field = "api_key" -> ApiKeys
      [] field = "system_prompt" -> SystemPrompts
      [] field \in {"prompt", "classification_prompt"} -> UserPrompts
      [] field \in {"text", "text_1", "text_2"} -> UserTexts
      [] field \in {"text_1_prefix", "text_2_prefix"} -> UserPrefixes

InputValues(node, field) ==
    LET decl == Schema(node)[field] IN
    IF decl.kind = "CHOICE" THEN models
    ELSE UserValues(field) \cup (IF decl.has_default THEN {decl.default} ELSE {})

(***************************************************************************)
(* State.                                                                  *)
(***************************************************************************)
NoExec == [name |-> "", node |-> "none", inputs |-> [none |-> TRUE]]

NoCall == [fn |-> "none", args |-> <<>>]

NoOutcome == [kind |-> "none"]

NoReply == [kind |-> "none"]

Init ==
    /\ pc = "idle"
    /\ cur = NoExec
    /\ full_prompt = ""
    /\ call = NoCall
    /\ ncalls = 0
    /\ reply = NoReply
    /\ outcome = NoOutcome
    /\ nexec = 0
    /\ remembered = [node |-> "none", inputs |-> [none |-> TRUE], call |-> NoCall]

(***************************************************************************)
(* Prompt assembly of the two text nodes (the f-strings).                  *)
(***************************************************************************)
\* Variant: the second text line is ended by a newline as well.
CombineTexts_full_prompt_trailing(prompt, text_1_prefix, text_1, text_2_prefix, text_2) ==
    prompt \o "\n" \o text_1_prefix \o " " \o text_1 \o "\n" \o text_2_prefix \o " " \o text_2 \o "\n"

CombineTexts_full_prompt(prompt, text_1_prefix, text_1, text_2_prefix, text_2) ==
    prompt \o "\n" \o text_1_prefix \o " " \o text_1 \o "\n" \o text_2_prefix \o " " \o text_2

\* Variant: no newline after the text.
TransformText_full_prompt_unterminated(prompt, text) ==
    prompt \o "\nText: " \o text

\* Variant: the texts of earlier executions leave a trace in the prompt.
TransformText_full_prompt_history(prompt, text) ==
    IF nexec = 0 THEN prompt \o "\nText: " \o text \o "\n"
    ELSE prompt \o "\nText: " \o text \o "\n" \o "(continued)\n"

TransformText_full_prompt(prompt, text) ==
    prompt \o "\nText: " \o text \o "\n"

(***************************************************************************)
(* The helper calls, with their positional arguments in call order.        *)
(***************************************************************************)
DescribeImage_call(image, model, api_key, system_prompt, prompt) ==
    [fn |-> "describe_image", args |-> <<image, prompt, system_prompt, model, api_key>>]

\* Variant: the model and the API key change places.
CombineTexts_call_swapped(assembled, model, api_key, system_prompt) ==
    [fn |-> "run_prompt", args |-> <<assembled, system_prompt, api_key, model>>]

CombineTexts_call(assembled, model, api_key, system_prompt) ==
    [fn |-> "run_prompt", args |-> <<assembled, system_prompt, model, api_key>>]

TransformText_call(assembled, model, api_key, system_prompt) ==
    [fn |-> "run_prompt", args |-> <<assembled, system_prompt, model, api_key>>]

ClassifyImage_call(image, classification_prompt, model, api_key, system_prompt) ==
    [fn |-> "describe_image", args |-> <<image, classification_prompt, system_prompt, model, api_key>>]

\* The parameter names of the helpers of .ai, in signature order.
HelperSignature(fn) ==
    CASE fn = "describe_image" -> <<"image", "prompt", "system_prompt", "model", "api_key">>
      [] fn = "run_prompt"     -> <<"prompt", "system_prompt", "model", "api_key">>

\* Variant: the response is returned bare, without the tuple around it.
execute_return_bare(r) == [kind |-> "return", value |-> r]

\* return (helper(...),): the response wrapped in a one-element tuple.
execute_return(r) == [kind |-> "return", value |-> <<r>>]

\* Variant: the exception is caught and its text returned as the result.
execute_raise_caught(e) == [kind |-> "return", value |-> <<"Error: " \o e>>]

\* No try/except around the helper call: the exception leaves execute as is.
execute_raise(e) == [kind |-> "raise", error |-> e]

(***************************************************************************)
(* Operations.                                                             *)
(***************************************************************************)
\* The host starts DescribeImage.execute; its only statement calls the helper.
DescribeImage_execute(name, image, model, api_key, system_prompt, prompt) ==
    /\ pc = "idle"
    /\ nexec < MaxExecs
    /\ NODE_CLASS_MAPPINGS[name] = "DescribeImage"
    /\ cur' = [name |-> name, node |-> "DescribeImage",
               inputs |-> [image |-> image, model |-> model, api_key |-> api_key,
                           system_prompt |-> system_prompt, prompt |-> prompt]]
    /\ call' = DescribeImage_call(image, model, api_key, system_prompt, prompt)
    /\ ncalls' = ncalls + 1
    /\ pc' = "helper"
    /\ UNCHANGED <<full_prompt, reply, outcome, nexec, remembered>>

\* The host starts ClassifyImage.execute; its only statement calls the helper.
ClassifyImage_execute(name, image, classification_prompt, model, api_key, system_prompt) ==
    /\ pc = "idle"
    /\ nexec < MaxExecs
    /\ NODE_CLASS_MAPPINGS[name] = "ClassifyImage"
    /\ cur' = [name |-> name, node |-> "ClassifyImage",
               inputs |-> [image |-> image, classification_prompt |-> classification_prompt,
                           model |-> model, api_key |-> api_key,
                           system_prompt |-> system_prompt]]
    /\ call' = ClassifyImage_call(image, classification_prompt, model, api_key, system_prompt)
    /\ ncalls' = ncalls + 1
    /\ pc' = "helper"
    /\ UNCHANGED <<full_prompt, reply, outcome, nexec, remembered>>

\* The host starts CombineTexts.execute; the first statement assembles
\* full_prompt.
CombineTexts_execute(name, text_1, text_1_prefix, text_2, text_2_prefix, model, api_key, system_prompt, prompt) ==
    /\ pc = "idle"
    /\ nexec < MaxExecs
    /\ NODE_CLASS_MAPPINGS[name] = "CombineTexts"
    /\ cur' = [name |-> name, node |-> "CombineTexts",
               inputs |-> [text_1 |-> text_1, text_1_prefix |-> text_1_prefix,
                           text_2 |-> text_2, text_2_prefix |-> text_2_prefix,
                           model |-> model, api_key |-> api_key,
                           system_prompt |-> system_prompt, prompt |-> prompt]]
    /\ full_prompt' = CombineTexts_full_prompt(prompt, text_1_prefix, text_1,
                                               text_2_prefix, text_2)
    /\ pc' = "assembled"
    /\ UNCHANGED <<call, ncalls, reply, outcome, nexec, remembered>>

\* The second statement of CombineTexts.execute calls run_prompt.
CombineTexts_run_prompt ==
    /\ pc = "assembled"
    /\ cur.node = "CombineTexts"
    /\ call' = CombineTexts_call(full_prompt, cur.inputs.model, cur.inputs.api_key,
                                 cur.inputs.system_prompt)
    /\ ncalls' = ncalls + 1
    /\ pc' = "helper"
    /\ UNCHANGED <<cur, full_prompt, reply, outcome, nexec, remembered>>

\* The host starts TransformText.execute; the first statement assembles
\* full_prompt.
TransformText_execute(name, text, model, api_key, system_prompt, prompt) ==
    /\ pc = "idle"
    /\ nexec < MaxExecs
    /\ NODE_CLASS_MAPPINGS[name] = "TransformText"
    /\ cur' = [name |-> name, node |-> "TransformText",
               inputs |-> [text |-> text, model |-> model, api_key |-> api_key,
                           system_prompt |-> system_prompt, prompt |-> prompt]]
    /\ full_prompt' = TransformText_full_prompt(prompt, text)
    /\ pc' = "assembled"
    /\ UNCHANGED <<call, ncalls, reply, outcome, nexec, remembered>>

\* The second statement of TransformText.execute calls run_prompt.
TransformText_run_prompt ==
    /\ pc = "assembled"
    /\ cur.node = "TransformText"
    /\ call' = TransformText_call(full_prompt, cur.inputs.model, cur.inputs.api_key,
                                  cur.inputs.system_prompt)
    /\ ncalls' = ncalls + 1
    /\ pc' = "helper"
    /\ UNCHANGED <<cur, full_prompt, reply, outcome, nexec, remembered>>

\* The helper answers r; execute returns.
helper_returns(r) ==
    /\ pc = "helper"
    /\ reply' = [kind |-> "return", value |-> r]
    /\ outcome' = execute_return(r)
    /\ pc' = "done"
    /\ UNCHANGED <<cur, full_prompt, call, ncalls, nexec, remembered>>

\* Variant: a failed call is made again.
helper_raises_retry(e) ==
    /\ pc = "helper"
    /\ ncalls' = ncalls + 1
    /\ UNCHANGED <<pc, cur, full_prompt, call, reply, outcome, nexec, remembered>>

\* The helper raises e; execute is left by the exception.
helper_raises(e) ==
    /\ pc = "helper"
    /\ reply' = [kind |-> "raise", error |-> e]
    /\ outcome' = execute_raise(e)
    /\ pc' = "done"
    /\ UNCHANGED <<cur, full_prompt, call, ncalls, nexec, remembered>>

\* The executions remembered is sampled from: those run with the declared
\* defaults wherever an input declares one, an empty system prompt and the
\* model ClassifyImage defaults to.
Sampled(exec) ==
    /\ exec.inputs.model = CLASSIFY_MODEL_DEFAULT
    /\ exec.inputs.system_prompt = ""
    /\ \A f \in DOMAIN exec.inputs :
          Schema(exec.node)[f].kind = "STRING" /\ Schema(exec.node)[f].has_default
              => exec.inputs[f] = Schema(exec.node)[f].default

\* The host takes the result (or the error) and the frame of execute is
\* gone.  remembered keeps one earlier execution of the host's choosing, to
\* compare a later one with.
host_collect(keep) ==
    /\ pc = "done"
    /\ keep => Sampled(cur)
    /\ remembered' = IF keep THEN [node |-> cur.node, inputs |-> cur.inputs, call |-> call]
                     ELSE remembered
    /\ nexec' = nexec + 1
    /\ cur' = NoExec
    /\ full_prompt' = ""
    /\ call' = NoCall
    /\ ncalls' = 0
    /\ reply' = NoReply
    /\ outcome' = NoOutcome
    /\ pc' = "idle"

Next ==
    \/ \E name \in DOMAIN NODE_CLASS_MAPPINGS,
          image \in InputValues("DescribeImage", "image"),
          model \in InputValues("DescribeImage", "model"),
          api_key \in InputValues("DescribeImage", "api_key"),
          system_prompt \in InputValues("DescribeImage", "system_prompt"),
          prompt \in InputValues("DescribeImage", "prompt") :
            DescribeImage_execute(name, image, model, api_key, system_prompt, prompt)
    \/ \E name \in DOMAIN NODE_CLASS_MAPPINGS,
          text_1 \in InputValues("CombineTexts", "text_1"),
          text_1_prefix \in InputValues("CombineTexts", "text_1_prefix"),
          text_2 \in InputValues("CombineTexts", "text_2"),
          text_2_prefix \in InputValues("CombineTexts", "text_2_prefix"),
          model \in InputValues("CombineTexts", "model"),
          api_key \in InputValues("CombineTexts", "api_key"),
          system_prompt \in InputValues("CombineTexts", "system_prompt"),
          prompt \in InputValues("CombineTexts", "prompt") :
            CombineTexts_execute(name, text_1, text_1_prefix, text_2, text_2_prefix,
                                 model, api_key, system_prompt, prompt)
    \/ CombineTexts_run_prompt
    \/ \E name \in DOMAIN NODE_CLASS_MAPPINGS,
          text \in InputValues("TransformText", "text"),
          model \in InputValues("TransformText", "model"),
          api_key \in InputValues("TransformText", "api_key"),
          system_prompt \in InputValues("TransformText", "system_prompt"),
          prompt \in InputValues("TransformText", "prompt") :
            TransformText_execute(name, text, model, api_key, system_prompt, prompt)
    \/ TransformText_run_prompt
    \/ \E name \in DOMAIN NODE_CLASS_MAPPINGS,
          image \in InputValues("ClassifyImage", "image"),
          classification_prompt \in InputValues("ClassifyImage", "classification_prompt"),
          model \in InputValues("ClassifyImage", "model"),
          api_key \in InputValues("ClassifyImage", "api_key"),
          system_prompt \in InputValues("ClassifyImage", "system_prompt") :
            ClassifyImage_execute(name, image, classification_prompt, model, api_key,
                                  system_prompt)
    \/ \E r \in Responses : helper_returns(r)
    \/ \E e \in Errors : helper_raises(e)
    \/ \E keep \in BOOLEAN : host_collect(keep)

Spec == Init /\ [][Next]_vars

(***************************************************************************)
(* Properties.                                                             *)
(***************************************************************************)
\* The helper has been called by the execution in progress.
Called == pc \in {"helper", "done"}

\* s is the parts of the sequence ps one after the other and nothing else,
\* stated position by position.
RECURSIVE MadeOf(_, _)
MadeOf(s, ps) ==
    IF ps = <<>> THEN Len(s) = 0
    ELSE /\ Len(s) >= Len(Head(ps))
         /\ SubSeq(s, 1, Len(Head(ps))) = Head(ps)
         /\ MadeOf(SubSeq(s, Len(Head(ps)) + 1, Len(s)), Tail(ps))

\* C1: whatever its inputs, CombineTexts.execute passes to run_prompt, as the
\* first argument, prompt, a newline, text_1_prefix, a space, text_1, a
\* newline, text_2_prefix, a space and text_2, in this order and nothing
\* else; with prefixes X, Y and texts a, b that is "{prompt}\nX a\nY b".
C1_CombineTextsPrompt ==
    /\ Called /\ cur.node = "CombineTexts" =>
         /\ call.fn = "run_prompt"
         /\ MadeOf(call.args[1],
                   <<cur.inputs.prompt, "\n", cur.inputs.text_1_prefix, " ",
                     cur.inputs.text_1, "\n", cur.inputs.text_2_prefix, " ",
                     cur.inputs.text_2>>)
    /\ \A p \in UserPrompts :
         CombineTexts_full_prompt(p, "X", "a", "Y", "b") = p \o "\nX a\nY b"

C1_Witness ==
    /\ pc = "helper"
    /\ cur.node = "CombineTexts"
    /\ cur.inputs.prompt = "Summarize:"
    /\ cur.inputs.text_1_prefix = "X"
    /\ cur.inputs.text_1 = "a"
    /\ cur.inputs.text_2_prefix = "2"
    /\ cur.inputs.text_2 = ""
    /\ call.args[1] = "Summarize:\nX a\n2 "

\* C2: when the helper answers r, execute of each of the four nodes returns
\* a tuple of exactly one element, r itself, unchanged.
C2_ReturnsResponse ==
    pc = "done" /\ reply.kind = "return" =>
        /\ cur.node \in NodeClasses
        /\ outcome.kind = "return"
        /\ Len(outcome.value) = 1
        /\ outcome.value[1] = reply.value
        /\ Len(outcome.value) = Len(Outputs(cur.node))

C2_Witness ==
    /\ pc = "done"
    /\ cur.node = "ClassifyImage"
    /\ reply = [kind |-> "return", value |-> " a cat.\n"]
    /\ outcome.value = <<" a cat.\n">>

\* C3: when the helper fails with error e, execute of each of the four
\* nodes ends with that same error e and returns no value.
C3_ErrorPropagates ==
    pc = "done" /\ reply.kind = "raise" =>
        /\ cur.node \in NodeClasses
        /\ outcome = [kind |-> "raise", error |-> reply.error]

C3_Witness ==
    /\ pc = "done"
    /\ cur.node = "TransformText"
    /\ reply = [kind |-> "raise", error |-> "RateLimitError"]
    /\ outcome.kind = "raise"

\* The prompt the two text nodes are to send for the inputs of the
\* execution in progress.
IsAssembled(s) ==
    CASE cur.node = "CombineTexts" ->
           MadeOf(s, <<cur.inputs.prompt, "\n", cur.inputs.text_1_prefix, " ",
                       cur.inputs.text_1, "\n", cur.inputs.text_2_prefix, " ",
                       cur.inputs.text_2>>)
      [] cur.node = "TransformText" ->
           MadeOf(s, <<cur.inputs.prompt, "\nText: ", cur.inputs.text, "\n">>)
      [] OTHER -> TRUE

\* C4: every execution of a node calls the helper exactly once, whether the
\* call succeeds or fails: no call before the prompt is assembled, the whole
\* prompt is there when the call is made, and an execution that has ended
\* has made one call, not none and not two.
C4_OneHelperCall ==
    /\ ncalls \in {0, 1}
    /\ pc = "idle" => ncalls = 0 /\ call = NoCall
    /\ pc = "assembled" => ncalls = 0 /\ call = NoCall /\ IsAssembled(full_prompt)
    /\ pc = "helper" => ncalls = 1 /\ call # NoCall /\ reply = NoReply
    /\ pc = "helper" /\ cur.node \in {"CombineTexts", "TransformText"} =>
         call.args[1] = full_prompt /\ IsAssembled(full_prompt)
    /\ pc = "done" => ncalls = 1 /\ call # NoCall /\ reply # NoReply

C4_Witness ==
    /\ pc = "done"
    /\ cur.node = "DescribeImage"
    /\ reply.kind = "raise"
    /\ ncalls = 1
    /\ nexec = 1

\* C5: whichever of the four nodes the host runs, in its schema the model
\* and the API key are required, and the system prompt and the user prompt
\* override (prompt, or classification_prompt in ClassifyImage) are both
\* optional.
C5_OptionalPromptOverrides ==
    \A node \in NodeClasses : Called /\ cur.node = node =>
        /\ IsRequired(Schema(node).model)
        /\ IsRequired(Schema(node).api_key)
        /\ ~IsRequired(Schema(node).system_prompt)
        /\ \A f \in DOMAIN Schema(node) \cap {"prompt", "classification_prompt"} :
              ~IsRequired(Schema(node)[f])

\* C6: NODE_CLASS_MAPPINGS has exactly four entries with distinct names and
\* distinct classes, 'Describe Image' for DescribeImage, 'Combine Texts' for
\* CombineTexts, 'Transform Text' for TransformText and 'Classify Image' for
\* ClassifyImage; every class of nodes.py is registered under exactly one
\* name, so the host runs under each name the execute of that class.
C6_Registration ==
    /\ Cardinality(DOMAIN NODE_CLASS_MAPPINGS) = 4
    /\ \A a, b \in DOMAIN NODE_CLASS_MAPPINGS :
          NODE_CLASS_MAPPINGS[a] = NODE_CLASS_MAPPINGS[b] => a = b
    /\ NODE_CLASS_MAPPINGS["Describe Image"] = "DescribeImage"
    /\ NODE_CLASS_MAPPINGS["Combine Texts"] = "CombineTexts"
    /\ NODE_CLASS_MAPPINGS["Transform Text"] = "TransformText"
    /\ NODE_CLASS_MAPPINGS["Classify Image"] = "ClassifyImage"
    /\ \A c \in NodeClasses :
          Cardinality({n \in DOMAIN NODE_CLASS_MAPPINGS : NODE_CLASS_MAPPINGS[n] = c}) = 1
    /\ pc # "idle" =>
          /\ cur.name \in DOMAIN NODE_CLASS_MAPPINGS
          /\ cur.node = NODE_CLASS_MAPPINGS[cur.name]
          /\ call # NoCall =>
               call.fn = (IF cur.name \in {"Describe Image", "Classify Image"}
                          THEN "describe_image" ELSE "run_prompt")

C6_Witness ==
    /\ pc = "helper"
    /\ cur.name = "Classify Image"
    /\ cur.node = "ClassifyImage"
    /\ call.fn = "describe_image"

\* C7: two executions of a node with equal inputs call the helper with equal
\* arguments, whatever ran in between and however it ended, and an execution
\* leaves nothing behind that a later one starts from.
C7_Deterministic ==
    /\ Called /\ remembered.node = cur.node /\ remembered.inputs = cur.inputs =>
          remembered.call = call
    /\ pc = "idle" =>
          /\ cur = NoExec
          /\ full_prompt = ""
          /\ call = NoCall
          /\ reply = NoReply
          /\ outcome = NoOutcome

C7_Witness ==
    /\ pc = "helper"
    /\ nexec = 2
    /\ cur.node = "TransformText"
    /\ remembered.node = cur.node
    /\ remembered.inputs = cur.inputs
    /\ remembered.call = call

\* C8: for every prompt and text, the empty string included,
\* TransformText.execute passes to run_prompt, as the first argument, prompt,
\* a newline, the label "Text:", one space, text and one newline.
C8_TransformTextPrompt ==
    Called /\ cur.node = "TransformText" =>
        /\ call.fn = "run_prompt"
        /\ MadeOf(call.args[1], <<cur.inputs.prompt, "\n", "Text:", " ", cur.inputs.text, "\n">>)

C8_Witness ==
    /\ pc = "helper"
    /\ cur.node = "TransformText"
    /\ cur.inputs.prompt = ""
    /\ cur.inputs.text = ""
    /\ call.args[1] = "\nText: \n"

\* The argument the call in progress passes for the helper's parameter p.
Arg(p) ==
    LET sig == HelperSignature(call.fn)
        at  == CHOOSE k \in 1..Len(sig) : sig[k] = p
    IN  call.args[at]

\* C9: execute passes its inputs on unchanged.  DescribeImage and
\* ClassifyImage call describe_image with the image, the prompt (or
\* classification_prompt) as received, the system prompt, the model and the
\* API key; CombineTexts and TransformText call run_prompt with the assembled
\* prompt, then the system prompt second, the model third and the API key
\* last, each exactly as received.
C9_ArgumentsPassedThrough ==
    Called =>
        /\ Len(call.args) = Len(HelperSignature(call.fn))
        /\ Arg("system_prompt") = cur.inputs.system_prompt
        /\ Arg("model") = cur.inputs.model
        /\ Arg("api_key") = cur.inputs.api_key
        /\ cur.node = "DescribeImage" =>
              call = [fn |-> "describe_image",
                      args |-> <<cur.inputs.image, cur.inputs.prompt,
                                 cur.inputs.system_prompt, cur.inputs.model,
                                 cur.inputs.api_key>>]
        /\ cur.node = "ClassifyImage" =>
              call = [fn |-> "describe_image",
                      args |-> <<cur.inputs.image, cur.inputs.classification_prompt,
                                 cur.inputs.system_prompt, cur.inputs.model,
                                 cur.inputs.api_key>>]
        /\ cur.node \in {"CombineTexts", "TransformText"} =>
              /\ call.fn = "run_prompt"
              /\ IsAssembled(call.args[1])
              /\ call.args[2] = cur.inputs.system_prompt
              /\ call.args[3] = cur.inputs.model
              /\ call.args[Len(call.args)] = cur.inputs.api_key

C9_Witness ==
    /\ pc = "helper"
    /\ cur.node = "ClassifyImage"
    /\ cur.inputs.classification_prompt = "Summarize:"
    /\ cur.inputs.system_prompt = "Be terse."
    /\ call.args = <<cur.inputs.image, "Summarize:", "Be terse.", cur.inputs.model, "sk-ant-1">>

\* s begins with t.
BeginsWith(s, t) == Len(s) >= Len(t) /\ SubSeq(s, 1, Len(t)) = t

\* C10: the prompt input of DescribeImage, CombineTexts and TransformText
\* has the same default, DESCRIBE_IMAGE_PROMPT ('Describe this image in
\* detail.'); COMBINE_TEXTS_PROMPT is the default of no input and is in no
\* helper call, so CombineTexts run with its default prompt sends a prompt
\* that begins with 'Describe this image in detail.'.
C10_SharedDefaultPrompt ==
    /\ DESCRIBE_IMAGE_PROMPT = "Describe this image in detail."
    /\ \A node \in {"DescribeImage", "CombineTexts", "TransformText"} :
          /\ Schema(node).prompt.has_default
          /\ Schema(node).prompt.default = DESCRIBE_IMAGE_PROMPT
    /\ \A node \in NodeClasses : \A f \in DOMAIN Schema(node) :
          Schema(node)[f].has_default => Schema(node)[f].default # COMBINE_TEXTS_PROMPT
    /\ \A k \in 1..Len(call.args) : ~BeginsWith(call.args[k], COMBINE_TEXTS_PROMPT)
    /\ Called /\ cur.node = "CombineTexts"
          /\ cur.inputs.prompt = Schema("CombineTexts").prompt.default =>
          BeginsWith(call.args[1], "Describe this image in detail.")

C10_Witness ==
    /\ pc = "helper"
    /\ cur.node = "CombineTexts"
    /\ cur.inputs.prompt = Schema("CombineTexts").prompt.default
    /\ call.args[1] = "Describe this image in detail.\n1 a\n2 a"

====
